---- MODULE Spec2Model ----
(***************************************************************************)
(* A model of src/server.py: a FastAPI application that proxies two Tavily *)
(* operations (search, extract) behind an api_key header check, a public   *)
(* /search route, and a FastApiMCP tool-discovery surface.                 *)
(*                                                                         *)
(* Conventions.  JSON scalars are written as their JSON text without the   *)
(* quotes of a string: the tokens of JsonNumbers are numbers, "null" is    *)
(* null, "true"/"false" are booleans, "[]" and the tokens of JsonLists are *)
(* lists of strings, every other token is a string.  A JSON object is a    *)
(* function from its keys to its values; "results" holds a sequence of     *)
(* objects.  Python's None is the value None below.                        *)
(***************************************************************************)
EXTENDS Naturals, Sequences, FiniteSets, TLC

VARIABLES
    environ,         \* os.environ as the process finds it
    phase,           \* "boot" | "serving" | "crashed": the import of server.py
    API_KEY,         \* module global, server.py:12
    TAVILY_API_KEY,  \* module global, server.py:41
    routes,          \* the paths registered on app by @app.post
    mcpTools,        \* the operations FastApiMCP exposes as tools
    loop,            \* the request whose handler holds the event loop, 0 if none
    st,              \* per request: "idle" | "arrived" | "pending" | "done"
    req,             \* per request: what the caller sent
    sent,            \* per request: the requests.post call the handler made
    calls,           \* per request: how many requests.post calls were made
    reply,           \* per request: what the provider answered
    resp             \* per request: what the caller receives

vars == <<environ, phase, API_KEY, TAVILY_API_KEY, routes, mcpTools, loop,
          st, req, sent, calls, reply, resp>>

\* The number of inbound calls a behaviour holds.
MaxReqs == 2

Reqs == 1..MaxReqs

----------------------------------------------------------------------------
\* Values

None == "<None>"
Unset == "<unset>"
NoHeader == "<no header>"

JsonNumbers == {"0.9", "42", "0.5", "3", "10", "5"}
JsonLists == {"[]", "[http://a]"}
JsonBools == {"true", "false"}

IsStr(t) == t \notin JsonNumbers \cup JsonLists \cup JsonBools \cup {"null"}

\* os.environ.get(name)
OsEnvironGet(name) == IF environ[name] = Unset THEN None ELSE environ[name]

\* Python truthiness of a str | None
Falsy(v) == v = None \/ v = ""

\* APIKeyHeader(name="api_key", auto_error=False): the header's value, or None
\* when the header is missing or empty.
api_key_header(raw) == IF raw = NoHeader \/ raw = "" THEN None ELSE raw

\* get_api_key: the dependency of the protected routes and of the MCP mount.
get_api_key(h) ==
    IF h = API_KEY
    THEN [ok |-> TRUE, value |-> h, status |-> 200, detail |-> ""]
    ELSE [ok |-> FALSE, value |-> None, status |-> 403, detail |-> "Invalid API key"]

baseURLs == [search |-> "https://api.tavily.com/search",
             extract |-> "https://api.tavily.com/extract"]

----------------------------------------------------------------------------
\* Request models

Literals == [search_depth |-> {"basic", "advanced"},
             topic |-> {"general", "news"},
             time_range |-> {"day", "week", "month", "year", "d", "w", "m", "y"},
             extract_depth |-> {"basic", "advanced"}]

\* The declared type of a non-enum field, as the set of tokens it accepts.
WellTyped(kind, t) ==
    CASE kind = "str" -> IsStr(t)
      [] kind = "int" -> t \in JsonNumbers /\ t \notin {"0.9", "0.5"}
      [] kind = "bool" -> t \in JsonBools
      [] kind = "list" -> t \in JsonLists

TavilySearchRequest ==
    [required |-> {"query"},
     enums |-> {"search_depth", "topic", "time_range"},
     kinds |-> [query |-> "str", days |-> "int", max_results |-> "int",
                include_images |-> "bool", include_image_descriptions |-> "bool",
                include_raw_content |-> "bool", include_domains |-> "list",
                exclude_domains |-> "list"],
     defaults |-> [search_depth |-> "basic", topic |-> "general", days |-> "3",
                   time_range |-> "day", max_results |-> "10",
                   include_images |-> "false",
                   include_image_descriptions |-> "false",
                   include_raw_content |-> "false", include_domains |-> "[]",
                   exclude_domains |-> "[]"]]

TavilyExtractRequest ==
    [required |-> {"urls"},
     enums |-> {"extract_depth"},
     kinds |-> [urls |-> "list", include_images |-> "bool"],
     defaults |-> [extract_depth |-> "basic", include_images |-> "false"]]

Declared(model) == model.required \cup DOMAIN model.defaults

\* A faulty validation that lets any value of an enum field through.
ValidateIgnoringEnums(model, body) ==
    /\ model.required \subseteq DOMAIN body
    /\ \A f \in DOMAIN body \cap DOMAIN model.kinds : WellTyped(model.kinds[f], body[f])

\* pydantic's validation of a body against a request model: required fields
\* present, enum fields in their literal set (exact match), the others of
\* their type; undeclared fields are ignored.
Validate(model, body) ==
    /\ model.required \subseteq DOMAIN body
    /\ \A f \in DOMAIN body \cap model.enums : body[f] \in Literals[f]
    /\ \A f \in DOMAIN body \cap DOMAIN model.kinds : WellTyped(model.kinds[f], body[f])

\* The request object: declared fields only, defaults for the missing ones.
Parse(model, body) ==
    [f \in Declared(model) |->
        IF f \in DOMAIN body THEN body[f] ELSE model.defaults[f]]

----------------------------------------------------------------------------
\* Response models

Result == {"title", "url", "content", "score", "published_date", "raw_content"}

TavilyResponse ==
    [fields |-> {"query", "follow_up_questions", "answer", "images", "results"},
     defaults |-> [query |-> "null", follow_up_questions |-> "[]",
                   answer |-> "", images |-> "[]"]]

StrOrNone(t) == IsStr(t) \/ t = "null"

ValidResult(x) ==
    /\ \A f \in DOMAIN x \cap (Result \ {"score"}) : StrOrNone(x[f])
    /\ "score" \in DOMAIN x => x.score \in JsonNumbers \cup {"null"}

\* Whether a provider body validates against TavilyResponse.
ValidResponse(b) ==
    /\ "query" \in DOMAIN b => StrOrNone(b.query)
    /\ "answer" \in DOMAIN b => StrOrNone(b.answer)
    /\ "follow_up_questions" \in DOMAIN b =>
          b.follow_up_questions \in JsonLists \cup {"null"}
    /\ "images" \in DOMAIN b => b.images \in JsonLists \cup {"null"}
    /\ "results" \in DOMAIN b => \A i \in 1..Len(b.results) : ValidResult(b.results[i])

SerializeResult(x) ==
    [f \in Result |-> IF f \in DOMAIN x THEN x[f] ELSE "null"]

\* A faulty serialization that lets the handler's return value through as it is.
SerializeVerbatim(b) == b

\* What FastAPI sends for a handler's return value under the response model
\* its return annotation declares: the declared fields, defaults for the
\* missing ones, undeclared fields dropped.

SerializeResponse(b) ==
    [f \in TavilyResponse.fields |->
        IF f = "results"
        THEN IF f \in DOMAIN b
             THEN [i \in 1..Len(b.results) |-> SerializeResult(b.results[i])]
             ELSE <<>>
        ELSE IF f \in DOMAIN b THEN b[f] ELSE TavilyResponse.defaults[f]]

\* str(e) of an HTTPException: "<status_code>: <detail>"
StrHTTPException(status, detail) == ToString(status) \o ": " \o detail

NoBody == <<>>

HTTPException(status, detail) == [status |-> status, detail |-> detail, body |-> NoBody]

----------------------------------------------------------------------------
\* What callers and the provider may send

SearchBase == [query |-> "rust ownership"]
ExtractBase == [urls |-> "[http://a]"]

CoreInputs ==
    [headers |-> {NoHeader, "s3cret", "wrong"},
     search |-> {SearchBase, SearchBase @@ [search_depth |-> "deep"]},
     extract |-> {ExtractBase, ExtractBase @@ [extract_depth |-> "ADVANCED"]},
     replies |-> {[status |-> 200,
                   body |-> [query |-> "rust ownership",
                             results |-> <<[title |-> "x", url |-> "http://x",
                                            content |-> "c", score |-> "0.9"]>>]],
                  [status |-> 503, body |-> [detail |-> "provider down"]]},
     errors |-> {"Connection refused"}]

WideInputs ==
    [headers |-> {NoHeader, "", "s3cret", "wrong"},
     search |-> {SearchBase,
                 [search_depth |-> "basic"],
                 SearchBase @@ [search_depth |-> "advanced"],
                 SearchBase @@ [search_depth |-> "deep"],
                 SearchBase @@ [search_depth |-> "Basic"],
                 SearchBase @@ [topic |-> "news"],
                 SearchBase @@ [topic |-> "NEWS"],
                 SearchBase @@ [time_range |-> "w"],
                 SearchBase @@ [time_range |-> "Week"],
                 SearchBase @@ [max_results |-> "5", include_images |-> "true"],
                 SearchBase @@ [days |-> "soon"],
                 SearchBase @@ [extract_depth |-> "ADVANCED", api_key |-> "s3cret"]},
     extract |-> {ExtractBase,
                  [urls |-> "[]"],
                  [include_images |-> "true"],
                  ExtractBase @@ [extract_depth |-> "advanced"],
                  ExtractBase @@ [extract_depth |-> "ADVANCED"],
                  ExtractBase @@ [search_depth |-> "deep"]},
     replies |-> CoreInputs.replies \cup
                 {[status |-> 200,
                   body |-> [query |-> "q", follow_up_questions |-> "null",
                             answer |-> "", images |-> "[]", results |-> <<>>]],
                  [status |-> 200,
                   body |-> [results |-> <<[url |-> "http://a", raw_content |-> "text"]>>,
                             failed_results |-> "[]", response_time |-> "0.5"]],
                  [status |-> 200, body |-> [query |-> "42"]],
                  [status |-> 401, body |-> [detail |-> "Unauthorized: invalid key"]]},
     errors |-> {"Connection refused", "Read timed out"}]

Routes == {"/search", "/tavily-search", "/tavily-extract"}
McpPath == "/mcp"

BodiesFor(route, in) ==
    CASE route \in {"/search", "/tavily-search"} -> in.search
      [] route = "/tavily-extract" -> in.extract
      [] route = McpPath -> {NoBody}

NoReq == [route |-> "", header |-> NoHeader, body |-> NoBody]
NoCall == [url |-> "", json |-> NoBody, headers |-> NoBody]
NoReply == [status |-> 0, body |-> NoBody]
NoResp == [status |-> 0, detail |-> "", body |-> NoBody]

----------------------------------------------------------------------------
\* Startup: the import of server.py

\* A faulty startup that goes on without the provider credential.
StartupNeverRefused == FALSE

\* if not TAVILY_API_KEY: raise Exception(...)
StartupRefused == Falsy(OsEnvironGet("TAVILY_API_KEY"))

\* FastApiMCP(app, ...) with no include/exclude filter: every operation of app.
FastApiMCP(appRoutes) == appRoutes

Init ==
    /\ environ \in [API_KEY : {Unset, "", "s3cret"},
                    TAVILY_API_KEY : {Unset, "", "tvly-key"}]
    /\ phase = "boot"
    /\ API_KEY = None
    /\ TAVILY_API_KEY = None
    /\ routes = {}
    /\ mcpTools = {}
    /\ loop = 0
    /\ st = [r \in Reqs |-> "idle"]
    /\ req = [r \in Reqs |-> NoReq]
    /\ sent = [r \in Reqs |-> NoCall]
    /\ calls = [r \in Reqs |-> 0]
    /\ reply = [r \in Reqs |-> NoReply]
    /\ resp = [r \in Reqs |-> NoResp]

LoadModule ==
    /\ phase = "boot"
    /\ API_KEY' = OsEnvironGet("API_KEY")
    /\ TAVILY_API_KEY' = OsEnvironGet("TAVILY_API_KEY")
    /\ IF StartupRefused
       THEN /\ phase' = "crashed"
            /\ routes' = {}
            /\ mcpTools' = {}
       ELSE /\ phase' = "serving"
            /\ routes' = Routes
            /\ mcpTools' = FastApiMCP(Routes)
    /\ UNCHANGED <<environ, loop, st, req, sent, calls, reply, resp>>

----------------------------------------------------------------------------
\* Request handling

config == <<environ, phase, API_KEY, TAVILY_API_KEY, routes, mcpTools>>

\* A caller sends a request; the server accepts the connection.
Arrive(r, route, header, body) ==
    /\ phase = "serving"
    /\ st[r] = "idle"
    /\ \A q \in Reqs : q < r => st[q] # "idle"
    /\ route \in routes \cup {McpPath}
    /\ st' = [st EXCEPT ![r] = "arrived"]
    /\ req' = [req EXCEPT ![r] = [route |-> route, header |-> header, body |-> body]]
    /\ UNCHANGED <<config, loop, sent, calls, reply, resp>>

\* The handler ends with a response and made no upstream call.
Respond(r, response) ==
    /\ st' = [st EXCEPT ![r] = "done"]
    /\ resp' = [resp EXCEPT ![r] = response]
    /\ UNCHANGED <<loop, sent, calls, reply>>

\* A faulty upstream call that answers from an earlier identical call's 200.
CallUpstreamCached(r, url, json, headers) ==
    LET call == [url |-> url, json |-> json, headers |-> headers]
        hits == {q \in Reqs \ {r} : st[q] = "done" /\ sent[q] = call /\ resp[q].status = 200}
    IN  IF hits # {}
        THEN Respond(r, resp[CHOOSE q \in hits : TRUE])
        ELSE /\ st' = [st EXCEPT ![r] = "pending"]
             /\ sent' = [sent EXCEPT ![r] = call]
             /\ calls' = [calls EXCEPT ![r] = @ + 1]
             /\ loop' = r
             /\ UNCHANGED <<reply, resp>>

\* requests.post(url, json=params, headers=headers): a blocking call made on
\* the event loop's thread, inside an async def handler.
CallUpstream(r, url, json, headers) ==
    /\ st' = [st EXCEPT ![r] = "pending"]
    /\ sent' = [sent EXCEPT ![r] = [url |-> url, json |-> json, headers |-> headers]]
    /\ calls' = [calls EXCEPT ![r] = @ + 1]
    /\ loop' = r
    /\ UNCHANGED <<reply, resp>>

\* A faulty header that forwards the caller's credential.
AuthorizationOfCaller(api_key) == [Authorization |-> "Bearer " \o api_key]

\* headers = {"Authorization": f"Bearer {TAVILY_API_KEY}"}, in a handler whose
\* api_key parameter holds what get_api_key returned (None on the public route).
AuthorizationHeader(api_key) == [Authorization |-> "Bearer " \o TAVILY_API_KEY]

SearchParams(request) ==
    [query |-> request.query,
     search_depth |-> request.search_depth,
     topic |-> request.topic,
     days |-> request.days,
     time_range |-> request.time_range,
     max_results |-> request.max_results,
     include_images |-> request.include_images,
     include_image_descriptions |-> request.include_image_descriptions,
     include_raw_content |-> request.include_raw_content,
     include_domains |-> request.include_domains,
     exclude_domains |-> request.exclude_domains]

ExtractParams(request) ==
    [urls |-> request.urls,
     extract_depth |-> request.extract_depth,
     include_images |-> request.include_images]

RequestValidationError == [status |-> 422, detail |-> "validation error", body |-> NoBody]

\* The event loop runs one handler at a time and is free only between them.
Scheduled(r, route) ==
    /\ phase = "serving"
    /\ loop = 0
    /\ st[r] = "arrived"
    /\ req[r].route = route

\* @app.post("/search")
public_search(r) ==
    /\ Scheduled(r, "/search")
    /\ IF ~Validate(TavilySearchRequest, req[r].body)
       THEN Respond(r, RequestValidationError)
       ELSE CallUpstream(r, baseURLs.search,
                         SearchParams(Parse(TavilySearchRequest, req[r].body)),
                         AuthorizationHeader(None))
    /\ UNCHANGED <<config, req>>

\* @app.post("/tavily-search"): the dependency runs before the body is validated.
tavily_search(r) ==
    /\ Scheduled(r, "/tavily-search")
    /\ LET api_key == get_api_key(api_key_header(req[r].header))
       IN  IF ~api_key.ok
           THEN Respond(r, HTTPException(api_key.status, api_key.detail))
           ELSE IF ~Validate(TavilySearchRequest, req[r].body)
           THEN Respond(r, RequestValidationError)
           ELSE CallUpstream(r, baseURLs.search,
                             SearchParams(Parse(TavilySearchRequest, req[r].body)),
                             AuthorizationHeader(api_key.value))
    /\ UNCHANGED <<config, req>>

\* @app.post("/tavily-extract")
tavily_extract(r) ==
    /\ Scheduled(r, "/tavily-extract")
    /\ LET api_key == get_api_key(api_key_header(req[r].header))
       IN  IF ~api_key.ok
           THEN Respond(r, HTTPException(api_key.status, api_key.detail))
           ELSE IF ~Validate(TavilyExtractRequest, req[r].body)
           THEN Respond(r, RequestValidationError)
           ELSE CallUpstream(r, baseURLs.extract,
                             ExtractParams(Parse(TavilyExtractRequest, req[r].body)),
                             AuthorizationHeader(api_key.value))
    /\ UNCHANGED <<config, req>>

\* The MCP mount, behind AuthConfig(dependencies=[Depends(get_api_key)]):
\* a caller lists the tools.
mcp_list_tools(r) ==
    /\ Scheduled(r, McpPath)
    /\ LET api_key == get_api_key(api_key_header(req[r].header))
       IN  IF ~api_key.ok
           THEN Respond(r, HTTPException(api_key.status, api_key.detail))
           ELSE Respond(r, [status |-> 200, detail |-> "", body |-> [tools |-> mcpTools]])
    /\ UNCHANGED <<config, req>>

\* requests.post returns: the handler resumes, shapes the response and frees
\* the event loop.  A non-200 raises HTTPException(500, "Tavily API error")
\* inside the try, which `except Exception as e` catches and raises again
\* with detail=str(e).  A 200 returns response.json(), which FastAPI
\* validates and serializes under the response model TavilyResponse.
UpstreamReturns(r, rep) ==
    /\ st[r] = "pending"
    /\ loop = r
    /\ reply' = [reply EXCEPT ![r] = rep]
    /\ resp' = [resp EXCEPT ![r] =
          IF rep.status # 200
          THEN HTTPException(500, StrHTTPException(500, "Tavily API error"))
          ELSE IF ValidResponse(rep.body)
          THEN [status |-> 200, detail |-> "", body |-> SerializeResponse(rep.body)]
          ELSE HTTPException(500, "Internal Server Error")]
    /\ st' = [st EXCEPT ![r] = "done"]
    /\ loop' = 0
    /\ UNCHANGED <<config, req, sent, calls>>

\* requests.post raises (connection error, timeout): caught by the same except.
UpstreamRaises(r, msg) ==
    /\ st[r] = "pending"
    /\ loop = r
    /\ resp' = [resp EXCEPT ![r] = HTTPException(500, msg)]
    /\ st' = [st EXCEPT ![r] = "done"]
    /\ loop' = 0
    /\ UNCHANGED <<config, req, sent, calls, reply>>

NextOn(R, in) ==
    \/ LoadModule
    \/ \E r \in R :
          \/ \E route \in Routes \cup {McpPath} :
                \E header \in in.headers, body \in BodiesFor(route, in) :
                   Arrive(r, route, header, body)
          \/ public_search(r)
          \/ tavily_search(r)
          \/ tavily_extract(r)
          \/ mcp_list_tools(r)
          \/ \E rep \in in.replies : UpstreamReturns(r, rep)
          \/ \E msg \in in.errors : UpstreamRaises(r, msg)

\* Concurrent callers, a small set of inputs.
Next == NextOn(Reqs, CoreInputs)

Spec == Init /\ [][Next]_vars

\* One caller, a wide set of inputs.
NextWide == NextOn({1}, WideInputs)

SpecWide == Init /\ [][NextWide]_vars

----------------------------------------------------------------------------
\* Properties

Protected == {"/tavily-search", "/tavily-extract"}

\* The handler of request r has run (to its response, or into requests.post).
Handled(r) == st[r] \in {"pending", "done"}

ModelOf(route) ==
    IF route = "/tavily-extract" THEN TavilyExtractRequest ELSE TavilySearchRequest

\* The body gives an enum-typed field of the route's model a value outside
\* its literal set.
BadEnum(r) ==
    \E f \in DOMAIN req[r].body \cap ModelOf(req[r].route).enums :
        req[r].body[f] \notin Literals[f]

CredentialOk(r) == get_api_key(api_key_header(req[r].header)).ok

\* C1: a request to a protected route whose api_key header is not the
\* configured caller secret, a request without the header included, gets the
\* 403 and makes no upstream call.
C1_MismatchRejected ==
    \A r \in Reqs :
        (/\ req[r].route \in Protected
         /\ Handled(r)
         /\ (req[r].header = NoHeader \/ req[r].header # environ.API_KEY))
        => /\ st[r] = "done"
           /\ resp[r].status = 403
           /\ calls[r] = 0

\* C2: with API_KEY unset in the environment, every call to a protected
\* route fails authorization, whatever its api_key header.
C2_NoDefaultAllow ==
    environ.API_KEY = Unset =>
        \A r \in Reqs :
            (req[r].route \in Protected /\ Handled(r))
            => (st[r] = "done" /\ resp[r].status = 403 /\ calls[r] = 0)

\* C3: when the provider answers with a status other than 200, the caller
\* receives a 500 whose detail is exactly "Tavily API error".
C3_GenericUpstreamError ==
    \A r \in Reqs :
        (st[r] = "done" /\ reply[r].status \notin {0, 200})
        => (resp[r].status = 500 /\ resp[r].detail = "Tavily API error")

FullShape(b) ==
    /\ DOMAIN b = {"query", "follow_up_questions", "answer", "images", "results"}
    /\ \A i \in 1..Len(b.results) :
          DOMAIN b.results[i] =
             {"title", "url", "content", "score", "published_date", "raw_content"}

C5_EnumRejectedAsValidationFailure ==
    \A r \in Reqs :
        (req[r].route \in Routes /\ Handled(r) /\ BadEnum(r))
        => (st[r] = "done" /\ resp[r].status = 422 /\ calls[r] = 0)

\* C5 as amended: a request with an out-of-set enum value (exact,
\* case-sensitive match) makes no upstream call on any route; it is answered
\* with the validation failure on the public route and on a protected route
\* whose credential check passes, and with the 403 on a protected route whose
\* credential check fails, which runs before the body is validated.
C5_EnumNeverForwarded ==
    \A r \in Reqs :
        (req[r].route \in Routes /\ Handled(r) /\ BadEnum(r))
        => /\ st[r] = "done"
           /\ calls[r] = 0
           /\ sent[r] = NoCall
           /\ resp[r].status =
                 IF req[r].route \in Protected /\ ~CredentialOk(r) THEN 403 ELSE 422

\* C5's case: a wrongly-cased enum value on a protected route, with the
\* right credential, is answered with the validation failure.
C5_Witness ==
    \E r \in Reqs :
        /\ st[r] = "done"
        /\ req[r].route = "/tavily-search"
        /\ req[r].header = "s3cret"
        /\ environ.API_KEY = "s3cret"
        /\ "search_depth" \in DOMAIN req[r].body
        /\ req[r].body.search_depth = "Basic"
        /\ resp[r].status = 422
        /\ calls[r] = 0

\* The request passes the credential check (where one applies) and the
\* validation of its body.
Passes(r) ==
    /\ req[r].route \in Routes
    /\ req[r].route \in Protected => CredentialOk(r)
    /\ Validate(ModelOf(req[r].route), req[r].body)

\* C6: every inbound call that passes the credential check and the body
\* validation makes exactly one upstream call, whatever other calls were
\* served before and however the upstream call ends; any other makes none.
C6_OneUpstreamCallPerCall ==
    \A r \in Reqs :
        calls[r] = IF Handled(r) /\ Passes(r) THEN 1 ELSE 0

\* C6's case: the same validated request issued twice, the first answered
\* with a 200: two upstream calls.
C6_Witness ==
    \E r, q \in Reqs :
        /\ r # q
        /\ req[r] = req[q]
        /\ st[r] = "done" /\ resp[r].status = 200
        /\ st[q] = "done"
        /\ calls[r] = 1 /\ calls[q] = 1

\* C7: the upstream call of a protected route carries exactly the fields of
\* the request model (11 for search, 3 for extract), each with the value the
\* caller gave or its default, and the Authorization header "Bearer " plus
\* the provider credential of the environment, whatever api_key the caller sent.
C7_UpstreamCallShape ==
    \A r \in Reqs :
        (req[r].route \in Protected /\ calls[r] > 0)
        => LET fields == IF req[r].route = "/tavily-search"
                         THEN {"query", "search_depth", "topic", "days", "time_range",
                               "max_results", "include_images",
                               "include_image_descriptions", "include_raw_content",
                               "include_domains", "exclude_domains"}
                         ELSE {"urls", "extract_depth", "include_images"}
           IN  /\ DOMAIN sent[r].json = fields
               /\ Cardinality(DOMAIN sent[r].json) =
                     IF req[r].route = "/tavily-search" THEN 11 ELSE 3
               /\ \A f \in fields \cap DOMAIN req[r].body : sent[r].json[f] = req[r].body[f]
               /\ \A f \in fields \ DOMAIN req[r].body :
                     sent[r].json[f] = ModelOf(req[r].route).defaults[f]
               /\ DOMAIN sent[r].headers = {"Authorization"}
               /\ sent[r].headers.Authorization = "Bearer " \o environ.TAVILY_API_KEY
               /\ sent[r].headers.Authorization # "Bearer " \o req[r].header

\* C7's case: an extract call with the right credential went upstream.
C7_Witness ==
    \E r \in Reqs :
        /\ req[r].route = "/tavily-extract"
        /\ req[r].header = "s3cret"
        /\ calls[r] = 1
        /\ sent[r].url = "https://api.tavily.com/extract"
        /\ sent[r].json.extract_depth = "advanced"

\* C8: the tool-discovery surface answers a caller either with the 403 or
\* with the two protected routes only, never with the public /search route.
C8_DiscoveryExcludesPublicRoute ==
    \A r \in Reqs :
        (req[r].route = McpPath /\ st[r] = "done")
        => \/ resp[r].status = 403
           \/ resp[r].body.tools = {"/tavily-search", "/tavily-extract"}

\* C9: with TAVILY_API_KEY absent (or empty) in the environment the process
\* never serves: no route is registered, no tool is exposed, no request is
\* accepted or answered and no upstream call is made.
C9_RefusesToStartWithoutProviderKey ==
    environ.TAVILY_API_KEY \in {Unset, ""} =>
        /\ phase # "serving"
        /\ routes = {}
        /\ mcpTools = {}
        /\ \A r \in Reqs : st[r] = "idle" /\ calls[r] = 0 /\ resp[r] = NoResp

\* C9's case: the import has run without a provider credential and failed.
C9_Witness ==
    /\ environ.TAVILY_API_KEY = Unset
    /\ phase = "crashed"

\* C10: while one call's upstream request is pending, any other call that
\* has arrived can be handled.
C10_IndependentProgress ==
    \A r, q \in Reqs :
        (r # q /\ st[r] = "pending" /\ st[q] = "arrived")
        => ENABLED (\/ public_search(q)
                    \/ tavily_search(q)
                    \/ tavily_extract(q)
                    \/ mcp_list_tools(q))

====
